---------------------------- MODULE Spec2Model ----------------------------
(***************************************************************************)
(* A model of robot_api/core.py: the Base component of the robot API.      *)
(*                                                                         *)
(*   - Base.move and the move_to_* family: the resolution of the call      *)
(*     shapes, the auto-registration of new goals in Storage.waypoints and *)
(*     the hand-over of the goal to the move_base action client;           *)
(*   - Base.get_pose: the lookup of the robot pose with its retry loop;    *)
(*   - two threads running Base.move_to_goal statement by statement.       *)
(*                                                                         *)
(* Python values are tagged records [t |-> <type name>, v |-> <payload>],  *)
(* floats are small integers.  TuplePose and Storage of robot_api.lib are   *)
(* modelled after the design document (sections 4.1 and 4.2), the action   *)
(* client after its sections 4.5 and 6.                                    *)
(***************************************************************************)
EXTENDS Integers, Sequences, FiniteSets, TLC

VARIABLES
    waypoints,  \* Storage.waypoints: waypoint name -> tuple pose
    nav,        \* the move_base action client: connection, tracked goal, done_cb
    call,       \* the caller thread's current (or last) call into Base
    sent,       \* what that call handed to the action client, in order
    gp,         \* Base.get_pose: position in the handler, its locals
    clock,      \* time.time(), in ticks, counted from the entry of get_pose
    thr         \* the two threads of the interleaved specification

vars == <<waypoints, nav, call, sent, gp, clock, thr>>

-----------------------------------------------------------------------------
(* Bounds of the model. *)

\* At most this many entries in Storage.waypoints.
MaxWaypoints == 2

\* The same for the interleaved specification, where two registrations may be
\* under way at once.
MaxConcWaypoints == 3

\* The largest timeout handed to get_pose, in ticks.
MaxTimeout == 5

-----------------------------------------------------------------------------
(* Python values. *)

PyNone == [t |-> "None", v |-> 0]
F(n) == [t |-> "float", v |-> n]
Tup(s) == [t |-> "tuple", v |-> s]
Lst(s) == [t |-> "list", v |-> s]

\* geometry_msgs Pose(Point(x, y, z), Quaternion(x, y, z, w))
Pose(p, q) == [t |-> "Pose", v |-> [position |-> p, orientation |-> q]]
Point(x, y, z) == [x |-> x, y |-> y, z |-> z]
Quaternion(x, y, z, w) == [x |-> x, y |-> y, z |-> z, w |-> w]

\* MoveBaseGoal with target_pose.header.frame_id and target_pose.pose
\* (header.stamp, the time of the call, is read by nothing in core.py).
MoveBaseGoal(frame, pose) == [t |-> "MoveBaseGoal", v |-> [frame_id |-> frame, pose |-> pose]]

Range(f) == {f[k] : k \in DOMAIN f}

\* The type arguments of _isinstance: a class, or a generic with its arguments.
TClass(n) == [k |-> "class", n |-> n, a |-> <<>>]
TUnion(a) == [k |-> "Union", n |-> "", a |-> a]
TTuple(a) == [k |-> "Tuple", n |-> "", a |-> a]
TSequence(a) == [k |-> "Sequence", n |-> "", a |-> a]

TFloat == TClass("float")
TGoal == TClass("MoveBaseGoal")
TSeqFloat == TSequence(<<TFloat>>)
TPoseArg == TUnion(<<TClass("Pose"), TTuple(<<TSeqFloat, TSeqFloat>>)>>)

\* Python's isinstance(obj, cls) on the modelled values.
IsInstance(obj, cls) ==
    CASE cls = "Sequence" -> obj.t \in {"tuple", "list"}
      [] cls = "tuple" -> obj.t = "tuple"
      [] OTHER -> obj.t = cls

RECURSIVE _isinstance(_, _)
_isinstance(obj, ty) ==
    IF ty.k = "Union" THEN \E i \in DOMAIN ty.a : _isinstance(obj, ty.a[i])
    ELSE IF ty.k = "Tuple"
        THEN /\ IsInstance(obj, "tuple")
             /\ Len(obj.v) = Len(ty.a)
             /\ \A i \in DOMAIN ty.a : _isinstance(obj.v[i], ty.a[i])
    ELSE IF ty.k = "Sequence"
        THEN /\ IsInstance(obj, "Sequence")
             /\ (ty.a = <<>> \/ \A i \in DOMAIN obj.v : _isinstance(obj.v[i], ty.a[1]))
    ELSE IsInstance(obj, ty.n)

\* args[index] (0-based) if it is there and of the type, else None.
_get_at(args, index, ty) ==
    IF Len(args) > index /\ _isinstance(args[index + 1], ty)
    THEN args[index + 1]
    ELSE PyNone

\* kwargs.get(key, default)
KwGet(kwargs, key, default) == IF key \in DOMAIN kwargs THEN kwargs[key] ELSE default

\* Python truth value: None, 0.0 and empty sequences are false.
Truthy(o) ==
    CASE o.t = "None" -> FALSE
      [] o.t = "float" -> o.v # 0
      [] o.t \in {"tuple", "list"} -> Len(o.v) > 0
      [] OTHER -> TRUE

-----------------------------------------------------------------------------
(* robot_api.lib and tf, as far as core.py uses them: TuplePose and Storage *)
(* after sections 4.1 and 4.2 of the design document.                       *)

\* TuplePose.to_pose: ((x, y, z), (x, y, z, w)) -> Pose(Point(*pose[0]), Quaternion(*pose[1]))
ToPose(pose) ==
    LET p == pose.v[1].v
        q == pose.v[2].v
    IN Pose(Point(p[1], p[2], p[3]), Quaternion(q[1], q[2], q[3], q[4]))

\* TuplePose.from_pose: Pose -> ((x, y, z), (x, y, z, w)), a tuple of tuples
FromPose(pose) ==
    LET p == pose.v.position
        q == pose.v.orientation
    IN Tup(<<Tup(<<p.x, p.y, p.z>>), Tup(<<q.x, q.y, q.z, q.w>>)>>)

\* tf.transformations.quaternion_from_euler, to first order in the angles
\* (the model's angles are small integers: the map keeps the three angles
\* apart, which is all that core.py relies on).
QuaternionFromEuler(roll, pitch, yaw) == Lst(<<roll, pitch, yaw, F(1)>>)

\* Waypoint names: <<"home", 0>> is the custom name "home", <<"waypoint", n>>
\* the generated name "waypoint<n>".
GenericName(n) == <<"waypoint", n>>

\* Storage._add_generic_waypoint: store the pose under a generated name that
\* is not in use.
AddGenericWaypoint(wp, pose) ==
    LET n == CHOOSE i \in 1..(Cardinality(DOMAIN wp) + 1) :
                 /\ GenericName(i) \notin DOMAIN wp
                 /\ \A j \in 1..(i - 1) : GenericName(j) \in DOMAIN wp
    IN [k \in DOMAIN wp \cup {GenericName(n)} |-> IF k = GenericName(n) THEN pose ELSE wp[k]]

-----------------------------------------------------------------------------
(* The handlers of Base, as functions of the store and the arguments.  Each  *)
(* yields the store it leaves, the goals it hands to the action client, its  *)
(* return value or exception and what it logs.  conn is what                 *)
(* self._connect(MOVE_BASE_TOPIC_NAME) answers during the call.              *)

\* timeout: float=60.0
DefaultTimeout == 60

NoCb == "no_cb"
NoExc == [type |-> "none", msg |-> "", expected |-> FALSE]

\* Excepthook.expect(ValueError(msg))
ExpectedValueError(msg) == [type |-> "ValueError", msg |-> msg, expected |-> TRUE]

Outcome(wp, sends, ret, exc, log) ==
    [wp |-> wp, sends |-> sends, ret |-> ret, exc |-> exc, log |-> log]

\* is_new_goal taken from the custom names alone, as line 98 looks them up
IsNewGoalByCustomName(pose, wp) == \A k \in DOMAIN wp : wp[k] = pose => k[1] = "waypoint"

\* is_new_goal that never finds the pose
IsNewGoalAlways(pose, wp) == TRUE

\* line 97: is_new_goal = pose not in Storage.waypoints.values()
IsNewGoal(pose, wp) == pose \notin Range(wp)

\* the hand-over with the two branches swapped
SendGoalSwapped(goal, timeout, done_cb) ==
    IF done_cb # NoCb
    THEN [mode |-> "send_goal_and_wait", goal |-> goal, timeout |-> timeout, cb |-> NoCb]
    ELSE [mode |-> "send_goal", goal |-> goal, timeout |-> 0, cb |-> done_cb]

\* lines 103-107: the hand-over to the action client
SendGoal(goal, timeout, done_cb) ==
    IF done_cb = NoCb
    THEN [mode |-> "send_goal_and_wait", goal |-> goal, timeout |-> timeout, cb |-> NoCb]
    ELSE [mode |-> "send_goal", goal |-> goal, timeout |-> 0, cb |-> done_cb]

\* line 91: self._connect(Base.MOVE_BASE_TOPIC_NAME), conn being whether the
\* move_base action server can be reached
AlwaysConnected(conn) == TRUE

Connect(conn) == conn

\* Base.move_to_goal (line 98, Storage._get_custom_waypoint_name, only reads
\* the store for the text of the log message)
MoveToGoal(wp, conn, goal, timeout, done_cb) ==
    IF ~Connect(conn)
    THEN Outcome(wp, <<>>, PyNone, NoExc, <<"logerr: Did you launch the move_base node?">>)
    ELSE LET pose == FromPose(goal.v.pose)
             is_new_goal == IsNewGoal(pose, wp)
             wp2 == IF is_new_goal THEN AddGenericWaypoint(wp, pose) ELSE wp
         IN Outcome(wp2, <<SendGoal(goal, timeout, done_cb)>>, PyNone, NoExc,
                    <<IF is_new_goal THEN "logdebug: Sending new navigation goal"
                                     ELSE "logdebug: Sending navigation goal">>)

\* Base.move_to_pose
MoveToPose(wp, conn, pose, frame_id, timeout, done_cb) ==
    MoveToGoal(wp, conn, MoveBaseGoal(frame_id, pose), timeout, done_cb)

\* Base.move_to_tuple_pose
MoveToTuplePose(wp, conn, pose, frame_id, timeout, done_cb) ==
    MoveToPose(wp, conn, ToPose(pose), frame_id, timeout, done_cb)

\* Base.move_to_position_and_orientation
MoveToPositionAndOrientation(wp, conn, position, orientation, frame_id, timeout, done_cb) ==
    MoveToPose(wp, conn, ToPose(Tup(<<position, orientation>>)), frame_id, timeout, done_cb)

\* Base.move_to_coordinates
MoveToCoordinates(wp, conn, x, y, z, roll, pitch, yaw, frame_id, timeout, done_cb) ==
    MoveToPose(wp, conn,
               ToPose(Tup(<<Tup(<<x, y, z>>), QuaternionFromEuler(roll, pitch, yaw)>>)),
               frame_id, timeout, done_cb)

\* Base.move_to_waypoint
MoveToWaypoint(wp, conn, name, frame_id, timeout, done_cb) ==
    IF name \notin DOMAIN wp
    THEN Outcome(wp, <<>>, PyNone, NoExc,
                 <<IF DOMAIN wp # {} THEN "logerr: Waypoint does not exist. Available waypoints"
                                     ELSE "logerr: No waypoints defined yet">>)
    ELSE MoveToPose(wp, conn, ToPose(wp[name]), frame_id, timeout, done_cb)

\* Base.move, lines 187-197: the locals bound from *args and **kwargs
MoveLocals(args, kwargs) ==
    [goal |-> KwGet(kwargs, "goal", _get_at(args, 0, TGoal)),
     pose |-> KwGet(kwargs, "pose", _get_at(args, 0, TPoseArg)),
     position |-> KwGet(kwargs, "position", _get_at(args, 0, TSeqFloat)),
     orientation |-> KwGet(kwargs, "orientation", _get_at(args, 1, TSeqFloat)),
     x |-> KwGet(kwargs, "x", _get_at(args, 0, TFloat)),
     y |-> KwGet(kwargs, "y", _get_at(args, 1, TFloat)),
     z |-> KwGet(kwargs, "z", IF Len(args) > 3 THEN _get_at(args, 2, TFloat) ELSE F(0)),
     roll |-> KwGet(kwargs, "roll", IF Len(args) >= 4 THEN _get_at(args, 3, TFloat) ELSE F(0)),
     pitch |-> KwGet(kwargs, "pitch", IF Len(args) >= 5 THEN _get_at(args, 4, TFloat) ELSE F(0)),
     yaw |-> KwGet(kwargs, "yaw", _get_at(args, IF Len(args) >= 6 THEN 5 ELSE 2, TFloat))]

\* the branch taken if a lone position or orientation were passed over when
\* x, y and yaw are there
MoveBranchInferring(l) ==
    IF l.goal = PyNone
    THEN IF l.pose = PyNone
         THEN IF ~Truthy(l.position) \/ ~Truthy(l.orientation)
              THEN IF l.x = PyNone \/ l.y = PyNone \/ l.yaw = PyNone
                   THEN IF ~Truthy(l.position) /\ ~Truthy(l.orientation)
                        THEN "raise_unspecified"
                        ELSE "raise_partial"
                   ELSE "move_to_coordinates"
              ELSE "move_to_position_and_orientation"
         ELSE IF IsInstance(l.pose, "Pose") THEN "move_to_pose" ELSE "move_to_tuple_pose"
    ELSE "move_to_goal"

\* the branch taken if the pose were looked at before the goal
MoveBranchPoseFirst(l) ==
    IF l.pose = PyNone
    THEN IF l.goal = PyNone
         THEN IF ~Truthy(l.position) \/ ~Truthy(l.orientation)
              THEN IF ~Truthy(l.position) /\ ~Truthy(l.orientation)
                   THEN IF l.x = PyNone \/ l.y = PyNone \/ l.yaw = PyNone
                        THEN "raise_unspecified"
                        ELSE "move_to_coordinates"
                   ELSE "raise_partial"
              ELSE "move_to_position_and_orientation"
         ELSE "move_to_goal"
    ELSE IF IsInstance(l.pose, "Pose") THEN "move_to_pose" ELSE "move_to_tuple_pose"

\* Base.move, lines 198-213: the branch taken
MoveBranch(l) ==
    IF l.goal = PyNone
    THEN IF l.pose = PyNone
         THEN IF ~Truthy(l.position) \/ ~Truthy(l.orientation)
              THEN IF ~Truthy(l.position) /\ ~Truthy(l.orientation)
                   THEN IF l.x = PyNone \/ l.y = PyNone \/ l.yaw = PyNone
                        THEN "raise_unspecified"
                        ELSE "move_to_coordinates"
                   ELSE "raise_partial"
              ELSE "move_to_position_and_orientation"
         ELSE IF IsInstance(l.pose, "Pose") THEN "move_to_pose" ELSE "move_to_tuple_pose"
    ELSE "move_to_goal"

\* Base.move
Move(wp, conn, args, kwargs, frame_id, timeout, done_cb) ==
    LET l == MoveLocals(args, kwargs)
        b == MoveBranch(l)
    IN CASE b = "move_to_goal" -> MoveToGoal(wp, conn, l.goal, timeout, done_cb)
         [] b = "move_to_pose" -> MoveToPose(wp, conn, l.pose, frame_id, timeout, done_cb)
         [] b = "move_to_tuple_pose" ->
                MoveToTuplePose(wp, conn, l.pose, frame_id, timeout, done_cb)
         [] b = "move_to_position_and_orientation" ->
                MoveToPositionAndOrientation(wp, conn, l.position, l.orientation,
                                             frame_id, timeout, done_cb)
         [] b = "move_to_coordinates" ->
                MoveToCoordinates(wp, conn, l.x, l.y, l.z, l.roll, l.pitch, l.yaw,
                                  frame_id, timeout, done_cb)
         [] b = "raise_unspecified" ->
                Outcome(wp, <<>>, PyNone,
                        ExpectedValueError("1. Goal, 2. pose, 3. position and orientation, or 4. x, y, and yaw must be specified."),
                        <<>>)
         [] OTHER ->
                Outcome(wp, <<>>, PyNone,
                        ExpectedValueError("Both 'position' and 'orientation' parameters must be specified."),
                        <<>>)

-----------------------------------------------------------------------------
(* The values the calls are made with. *)

\* The tuple pose at (x, y, 0) turned by yaw.
TP(x, y, yaw) == Tup(<<Tup(<<F(x), F(y), F(0)>>), Tup(<<F(0), F(0), F(yaw), F(1)>>)>>)

PoseA == TP(1, 0, 0)
PoseB == TP(2, 0, 0)
PoseC == TP(1, 0, 1)
TuplePoses == {PoseA, PoseB, PoseC}

Frames == {"map", "odom"}
Callbacks == {NoCb, "done_cb"}
Timeouts == {DefaultTimeout, 5}
Goals == {MoveBaseGoal(f, ToPose(p)) : f \in Frames, p \in TuplePoses}

Home == <<"home", 0>>
Nowhere == <<"nowhere", 0>>
EmptyStore == [k \in {} |-> PoseA]
WaypointNames == {Home, Nowhere} \cup {GenericName(i) : i \in 1..MaxWaypoints}

\* Storage.waypoints as loaded at start: nothing, or custom waypoints.
InitStores == {EmptyStore, [k \in {Home} |-> PoseA]}

TerminalStates == {"SUCCEEDED", "ABORTED", "PREEMPTED"}

-----------------------------------------------------------------------------
(* The state. *)

NavIdle == [active |-> FALSE, mode |-> "none", goal |-> PyNone, cb |-> NoCb, fired |-> 0]
NoCall ==
    [op |-> "none", args |-> <<>>, kwargs |-> <<>>, frame_id |-> "map",
     timeout |-> DefaultTimeout, done_cb |-> NoCb, conn |-> FALSE,
     before |-> EmptyStore, phase |-> "idle", ret |-> PyNone, exc |-> NoExc,
     log |-> <<>>, ended |-> "none"]
NoRaise == [type |-> "none", attempt |-> 0, expected |-> FALSE]
GpIdle ==
    [pc |-> "idle", timeout |-> 0, time_start |-> 0, e |-> "none", attempts |-> <<>>,
     result |-> "none", raised |-> NoRaise]
ThrIdle == [pc |-> "idle", goal |-> PyNone, pose |-> PyNone, is_new_goal |-> FALSE]

InitCommon ==
    /\ nav = NavIdle
    /\ call = NoCall
    /\ sent = <<>>
    /\ gp = GpIdle
    /\ clock = 0
    /\ thr = [i \in {"caller", "actor"} |-> ThrIdle]

Init ==
    /\ waypoints \in InitStores
    /\ InitCommon

\* The caller's thread is not inside a blocking call.
CallerFree == call.phase # "waiting"

\* The action client after the call handed it `sends`: it tracks the last goal.
Track(sends) ==
    IF sends = <<>> THEN nav
    ELSE LET s == sends[Len(sends)]
         IN [active |-> TRUE, mode |-> s.mode, goal |-> s.goal, cb |-> s.cb, fired |-> 0]

\* The caller runs a handler of Base with outcome r.
Apply(op, args, kwargs, frame_id, timeout, done_cb, conn, r) ==
    /\ Cardinality(DOMAIN r.wp) <= MaxWaypoints
    /\ waypoints' = r.wp
    /\ sent' = r.sends
    /\ nav' = Track(r.sends)
    /\ call' = [op |-> op, args |-> args, kwargs |-> kwargs, frame_id |-> frame_id,
                timeout |-> timeout, done_cb |-> done_cb, conn |-> conn,
                before |-> waypoints,
                phase |-> IF r.exc # NoExc THEN "raised"
                          ELSE IF r.sends # <<>> /\ r.sends[Len(r.sends)].mode = "send_goal_and_wait"
                               THEN "waiting"
                               ELSE "returned",
                ret |-> r.ret, exc |-> r.exc, log |-> r.log, ended |-> "none"]
    /\ UNCHANGED <<gp, clock, thr>>

CallMoveToGoal ==
    /\ CallerFree
    /\ \E goal \in Goals, timeout \in Timeouts, done_cb \in Callbacks, conn \in BOOLEAN :
        Apply("move_to_goal", <<goal>>, <<>>, "map", timeout, done_cb, conn,
              MoveToGoal(waypoints, conn, goal, timeout, done_cb))

CallMoveToTuplePose ==
    /\ CallerFree
    /\ \E pose \in TuplePoses, frame_id \in Frames, done_cb \in Callbacks, conn \in BOOLEAN :
        Apply("move_to_tuple_pose", <<pose>>, <<>>, frame_id, DefaultTimeout, done_cb, conn,
              MoveToTuplePose(waypoints, conn, pose, frame_id, DefaultTimeout, done_cb))

CallMoveToWaypoint ==
    /\ CallerFree
    /\ \E name \in WaypointNames, done_cb \in Callbacks, conn \in BOOLEAN :
        Apply("move_to_waypoint", <<name>>, <<>>, "map", DefaultTimeout, done_cb, conn,
              MoveToWaypoint(waypoints, conn, name, "map", DefaultTimeout, done_cb))

\* The action server reports a terminal state of the tracked goal: a blocked
\* send_goal_and_wait returns it, a done_cb is called with it.
ActorTerminal ==
    \E status \in TerminalStates :
        /\ nav.active
        /\ IF nav.mode = "send_goal_and_wait"
           THEN /\ call' = [call EXCEPT !.phase = "returned", !.ended = "terminal",
                                        !.ret = [t |-> "state", v |-> status]]
                /\ nav' = [nav EXCEPT !.active = FALSE]
           ELSE /\ nav' = [nav EXCEPT !.active = FALSE, !.fired = @ + 1]
                /\ call' = call
        /\ UNCHANGED <<waypoints, sent, gp, clock, thr>>

\* The timeout of a blocked send_goal_and_wait elapses: the goal is cancelled
\* and the call returns.
WaitTimeout ==
    /\ call.phase = "waiting"
    /\ call' = [call EXCEPT !.phase = "returned", !.ended = "timeout",
                            !.ret = [t |-> "state", v |-> "PREEMPTED"]]
    /\ nav' = [nav EXCEPT !.active = FALSE]
    /\ UNCHANGED <<waypoints, sent, gp, clock, thr>>

Next ==
    \/ CallMoveToGoal
    \/ CallMoveToTuplePose
    \/ CallMoveToWaypoint
    \/ ActorTerminal
    \/ WaitTimeout

Spec == Init /\ [][Next]_vars

-----------------------------------------------------------------------------
(* Base.move called once, with every modelled combination of positional and  *)
(* keyword arguments, on each initial store.  Each supplied value is its own: *)
(* what is dispatched tells which argument it was built from.                *)

GoalP == MoveBaseGoal("odom", ToPose(TP(21, 0, 0)))
GoalK == MoveBaseGoal("odom", ToPose(TP(22, 0, 0)))
NativeP == ToPose(TP(23, 0, 0))
TupleP == TP(24, 0, 0)
ListsP == Tup(<<Lst(<<F(25), F(0), F(0)>>), Lst(<<F(0), F(0), F(0), F(1)>>)>>)
PoseK == TP(26, 0, 0)
PositionP == Lst(<<F(27), F(0), F(0)>>)
OrientationP == Lst(<<F(0), F(0), F(7), F(1)>>)
PositionK == Tup(<<F(28), F(0), F(0)>>)
OrientationK == Tup(<<F(0), F(0), F(8), F(1)>>)

\* The floats 1.0, 2.0, ... handed over positionally.
Numbers == <<F(1), F(2), F(3), F(4), F(5), F(6)>>

MoveArgs ==
    {<<>>, <<GoalP>>, <<NativeP>>, <<TupleP>>, <<ListsP>>,
     <<PositionP, OrientationP>>, <<PositionP>>, <<F(1), OrientationP>>}
    \cup {SubSeq(Numbers, 1, n) : n \in 1..Len(Numbers)}

KwValues ==
    [goal |-> GoalK, pose |-> PoseK, position |-> PositionK, orientation |-> OrientationK,
     x |-> F(11), y |-> F(12), z |-> F(13), roll |-> F(14), pitch |-> F(15), yaw |-> F(16)]

ShapeKeys == {"goal", "pose", "position", "orientation"}
CoordinateKeySets ==
    {{}, {"x", "y", "yaw"}, {"x", "y"}, {"yaw"}, {"z"},
     {"x", "y", "z", "roll", "pitch", "yaw"}}

MoveKwargs ==
    {[k \in ks \cup cs |-> KwValues[k]] : ks \in SUBSET ShapeKeys, cs \in CoordinateKeySets}

\* The pose Base.move dispatches for move(1.0, 2.0, 3.0).
Pose123 == Tup(<<Tup(<<F(1), F(2), F(0)>>), Tup(<<F(0), F(0), F(3), F(1)>>)>>)

MoveInitStores ==
    InitStores \cup {[k \in {GenericName(1)} |-> Pose123], [k \in {Home} |-> PoseK]}

InitMove ==
    /\ waypoints \in MoveInitStores
    /\ InitCommon

CallMove ==
    /\ call.op = "none"
    /\ \E args \in MoveArgs, kwargs \in MoveKwargs, done_cb \in Callbacks, conn \in BOOLEAN :
        Apply("move", args, kwargs, "map", DefaultTimeout, done_cb, conn,
              Move(waypoints, conn, args, kwargs, "map", DefaultTimeout, done_cb))

NextMove ==
    \/ CallMove
    \/ ActorTerminal
    \/ WaitTimeout

SpecMove == InitMove /\ [][NextMove]_vars

-----------------------------------------------------------------------------
(* Base.get_pose, one lookup per step.  Time is counted in ticks of half a   *)
(* second from the entry of the call; a lookup takes no time, the sleep of   *)
(* the retry loop takes exactly a second.                                    *)

\* time.sleep(1.0), in ticks
SleepTicks == 2

\* What self._tf_listener.lookupTransform does: it answers, or raises.
LookupOutcomes == {"pose", "LookupException", "ExtrapolationException"}

\* raise Excepthook.expect(e), e being the exception of lookup number `attempt`
Expected(type, attempt) == [type |-> type, attempt |-> attempt, expected |-> TRUE]

\* An exception that leaves get_pose as it was raised.
Escaping(type, attempt) == [type |-> type, attempt |-> attempt, expected |-> FALSE]

\* line 64: the exceptions a failed retry is forgiven
RetryCatches(type) == type = "LookupException"

GetPoseFree == gp.pc \in {"idle", "returned", "raised"}

\* lines 52-57, 66: the first lookup
GetPoseCall ==
    /\ GetPoseFree
    /\ \E timeout \in 0..MaxTimeout, outcome \in LookupOutcomes :
        /\ clock' = 0
        /\ gp' = IF outcome = "pose"
                 THEN [pc |-> "returned", timeout |-> timeout, time_start |-> 0, e |-> "none",
                       attempts |-> <<outcome>>, result |-> "pose", raised |-> NoRaise]
                 ELSE IF timeout # 0
                 THEN [pc |-> "loop", timeout |-> timeout, time_start |-> 0, e |-> outcome,
                       attempts |-> <<outcome>>, result |-> "none", raised |-> NoRaise]
                 ELSE [pc |-> "raised", timeout |-> timeout, time_start |-> 0, e |-> outcome,
                       attempts |-> <<outcome>>, result |-> "none",
                       raised |-> Expected(outcome, 1)]
    /\ UNCHANGED <<waypoints, nav, call, sent, thr>>

\* lines 58-65: one turn of the retry loop
GetPoseRetry ==
    /\ gp.pc = "loop"
    /\ clock - gp.time_start < gp.timeout
    /\ \E outcome \in LookupOutcomes :
        /\ clock' = clock + SleepTicks
        /\ LET n == Len(gp.attempts) + 1
               tried == [gp EXCEPT !.attempts = Append(@, outcome)]
           IN gp' = IF outcome = "pose"
                    THEN [tried EXCEPT !.pc = "returned", !.result = "pose"]
                    ELSE IF RetryCatches(outcome)
                    THEN tried
                    ELSE [tried EXCEPT !.pc = "raised", !.raised = Escaping(outcome, n)]
    /\ UNCHANGED <<waypoints, nav, call, sent, thr>>

\* lines 58, 66: the loop ends, the first exception is raised
GetPoseGiveUp ==
    /\ gp.pc = "loop"
    /\ ~(clock - gp.time_start < gp.timeout)
    /\ gp' = [gp EXCEPT !.pc = "raised", !.raised = Expected(gp.e, 1)]
    /\ UNCHANGED <<waypoints, nav, call, sent, clock, thr>>

InitPose ==
    /\ waypoints \in InitStores
    /\ InitCommon

NextPose ==
    \/ GetPoseCall
    \/ GetPoseRetry
    \/ GetPoseGiveUp

SpecPose == InitPose /\ [][NextPose]_vars

-----------------------------------------------------------------------------
(* Two threads in Base.move_to_goal, one statement per step.  Thread 1 is    *)
(* the caller, who sends its goals with a done_cb and so never blocks;       *)
(* thread 2 is the action client's thread, which runs that done_cb when the  *)
(* goal ends, and the done_cb moves the robot on with move_to_goal.  The     *)
(* server is connected.  core.py takes no lock around Storage.waypoints.     *)

Caller == "caller"
ActorThread == "actor"
ConcGoals == {MoveBaseGoal("map", ToPose(p)) : p \in TuplePoses}

InFlight == {i \in DOMAIN thr : thr[i].pc # "idle"}

\* The goal is known already, or there is room in the bounded store for every
\* registration that may still come.
ConcRoom(goal) ==
    \/ ~IsNewGoal(FromPose(goal.v.pose), waypoints)
    \/ Cardinality(DOMAIN waypoints) + Cardinality(InFlight) < MaxConcWaypoints

\* line 95: pose = TuplePose.from_pose(goal.target_pose.pose)
ConcEnter(i, goal) ==
    thr' = [thr EXCEPT ![i] = [pc |-> "l97", goal |-> goal, pose |-> FromPose(goal.v.pose),
                               is_new_goal |-> FALSE]]

\* The caller calls move_to_goal(goal, done_cb=done_cb).
ConcCall ==
    /\ thr[Caller].pc = "idle"
    /\ \E goal \in ConcGoals : ConcRoom(goal) /\ ConcEnter(Caller, goal)
    /\ UNCHANGED <<waypoints, nav, call, sent, gp, clock>>

\* The tracked goal ends: the client's thread runs done_cb, which calls
\* move_to_goal(goal, done_cb=done_cb).
ConcDoneCb ==
    /\ thr[ActorThread].pc = "idle"
    /\ nav.active
    /\ nav.cb # NoCb
    /\ \E goal \in ConcGoals : ConcRoom(goal) /\ ConcEnter(ActorThread, goal)
    /\ nav' = [nav EXCEPT !.active = FALSE, !.fired = @ + 1]
    /\ UNCHANGED <<waypoints, call, sent, gp, clock>>

\* line 97: is_new_goal = pose not in Storage.waypoints.values()
ConcCheck(i) ==
    /\ thr[i].pc = "l97"
    /\ thr' = [thr EXCEPT ![i].pc = "l101", ![i].is_new_goal = IsNewGoal(thr[i].pose, waypoints)]
    /\ UNCHANGED <<waypoints, nav, call, sent, gp, clock>>

\* lines 101-102: if is_new_goal: Storage._add_generic_waypoint(pose)
ConcRegister(i) ==
    /\ thr[i].pc = "l101"
    /\ waypoints' = IF thr[i].is_new_goal
                    THEN AddGenericWaypoint(waypoints, thr[i].pose)
                    ELSE waypoints
    /\ thr' = [thr EXCEPT ![i].pc = "l107"]
    /\ UNCHANGED <<nav, call, sent, gp, clock>>

\* line 107: send_goal(goal, done_cb), and the call returns
ConcSend(i) ==
    /\ thr[i].pc = "l107"
    /\ nav' = [active |-> TRUE, mode |-> "send_goal", goal |-> thr[i].goal,
               cb |-> "done_cb", fired |-> 0]
    /\ thr' = [thr EXCEPT ![i].pc = "idle"]
    /\ UNCHANGED <<waypoints, call, sent, gp, clock>>

InitConc ==
    /\ waypoints \in InitStores
    /\ InitCommon

NextConc ==
    \/ ConcCall
    \/ ConcDoneCb
    \/ \E i \in DOMAIN thr : ConcCheck(i)
    \/ \E i \in DOMAIN thr : ConcRegister(i)
    \/ \E i \in DOMAIN thr : ConcSend(i)

SpecConc == InitConc /\ [][NextConc]_vars

-----------------------------------------------------------------------------
(* Properties of the store and of the hand-over to the action client (Spec). *)

\* The call handed a goal to the action client.
Dispatched == call.op # "none" /\ sent # <<>>

\* The tuple pose of the goal the call dispatched.
TargetPose == FromPose(sent[1].goal.v.pose)

NewNames == DOMAIN waypoints \ DOMAIN call.before

\* Every entry the store had when the call began is still there, unchanged.
BeforeKept == \A k \in DOMAIN call.before : k \in DOMAIN waypoints /\ waypoints[k] = call.before[k]

\* C1: when move_to_goal has handed its goal to the action client, a target
\* pose that was no value of the store before the call has added exactly one
\* entry, whose value is that pose, and a target pose that was a value of the
\* store has added none; all other entries are as they were.  The pose is a
\* value of the store afterwards, so that dispatching it again adds nothing.
C1_AutoRegistration ==
    (Dispatched /\ call.op = "move_to_goal") =>
        /\ sent[1].goal = call.args[1]
        /\ BeforeKept
        /\ TargetPose \in Range(waypoints)
        /\ IF TargetPose \in Range(call.before)
           THEN NewNames = {}
           ELSE /\ Cardinality(NewNames) = 1
                /\ \A k \in NewNames : waypoints[k] = TargetPose

\* A second dispatch of a pose that an earlier dispatch registered under a
\* generated name: the store is as before the call.
C1_Witness ==
    /\ Dispatched
    /\ call.op = "move_to_goal"
    /\ \E k \in DOMAIN call.before : k[1] = "waypoint" /\ call.before[k] = TargetPose
    /\ waypoints = call.before

LogAndReturnCase ==
    \/ call.op = "move_to_waypoint" /\ call.args[1] \notin DOMAIN call.before
    \/ call.op = "move_to_goal" /\ ~call.conn

\* C2: move_to_waypoint with a name that is no key of the store, and
\* move_to_goal while the action server cannot be reached, return None
\* without raising, hand nothing to the action client and leave the store
\* as it was.
C2_LogAndReturn ==
    LogAndReturnCase =>
        /\ call.phase = "returned"
        /\ call.exc = NoExc
        /\ call.ret = PyNone
        /\ sent = <<>>
        /\ waypoints = call.before

\* An unknown name on a store that has waypoints, the server being reachable.
C2_Witness ==
    /\ call.op = "move_to_waypoint"
    /\ call.args[1] \notin DOMAIN call.before
    /\ call.before # EmptyStore
    /\ call.conn
    /\ call.phase = "returned"

\* C8: a move_to_goal that reaches the hand-over sends its goal exactly once;
\* with a done_cb by send_goal with that done_cb, and the call has returned
\* without waiting; without one by send_goal_and_wait with the timeout of the
\* call, and the call is blocked while the goal is tracked and has returned
\* only after a terminal state or the timeout, with that state.
C8_DispatchMode ==
    (call.op = "move_to_goal" /\ call.conn) =>
        /\ Len(sent) = 1
        /\ sent[1].goal = call.args[1]
        /\ IF call.done_cb # NoCb
           THEN /\ sent[1].mode = "send_goal"
                /\ sent[1].cb = call.done_cb
                /\ call.phase = "returned"
                /\ call.ended = "none"
                /\ call.ret = PyNone
           ELSE /\ sent[1].mode = "send_goal_and_wait"
                /\ sent[1].timeout = call.timeout
                /\ call.phase \in {"waiting", "returned"}
                /\ call.phase = "waiting" => nav.active /\ nav.goal = call.args[1]
                /\ call.phase = "returned" =>
                       /\ call.ended \in {"terminal", "timeout"}
                       /\ ~nav.active
                       /\ call.ret.t = "state"
                       /\ call.ret.v \in TerminalStates

\* A call with a done_cb that has returned while its goal is still under way.
C8_Witness ==
    /\ call.op = "move_to_goal"
    /\ call.conn
    /\ call.done_cb # NoCb
    /\ call.phase = "returned"
    /\ nav.active
    /\ nav.goal = call.args[1]
    /\ nav.fired = 0

-----------------------------------------------------------------------------
(* Properties of Base.move (SpecMove).  What the caller supplied is read off *)
(* the arguments of the call as the caller wrote them.                       *)

IsFloats(o) == o.t \in {"tuple", "list"} /\ \A i \in DOMAIN o.v : o.v[i].t = "float"
IsPoseValue(o) ==
    \/ o.t = "Pose"
    \/ o.t = "tuple" /\ Len(o.v) = 2 /\ \A i \in DOMAIN o.v : IsFloats(o.v[i])

IsGoalValue(o) == o.t = "MoveBaseGoal"
IsFloatValue(o) == o.t = "float"
HasKw(k) == k \in DOMAIN call.kwargs

\* There is an i-th (1-based) positional argument.
HasArg(i) == Len(call.args) >= i

SuppliedGoal == HasKw("goal") \/ (HasArg(1) /\ IsGoalValue(call.args[1]))
SuppliedPose == HasKw("pose") \/ (HasArg(1) /\ IsPoseValue(call.args[1]))
SuppliedPosition == HasKw("position") \/ (HasArg(1) /\ IsFloats(call.args[1]))
SuppliedOrientation == HasKw("orientation") \/ (HasArg(2) /\ IsFloats(call.args[2]))
SuppliedX == HasKw("x") \/ (HasArg(1) /\ IsFloatValue(call.args[1]))
SuppliedY == HasKw("y") \/ (HasArg(2) /\ IsFloatValue(call.args[2]))
SuppliedYaw == HasKw("yaw") \/ (HasArg(3) /\ IsFloatValue(call.args[3]))

\* A keyword argument goes before the positional one.
Given(k, i) == IF HasKw(k) THEN call.kwargs[k] ELSE call.args[i]

Rejected ==
    /\ call.phase = "raised"
    /\ call.exc.type = "ValueError"
    /\ call.exc.expected
    /\ sent = <<>>
    /\ waypoints = call.before

PartialPair == SuppliedPosition # SuppliedOrientation

\* C3: when Base.move is given no goal and no pose, and exactly one of
\* position and orientation (whether or not x, y and yaw come with it), or
\* none of the two and not all of x, y and yaw, it raises the expected
\* ValueError, hands nothing to the action client and leaves the store alone.
C3_PartialRejected ==
    (/\ call.op = "move"
     /\ ~SuppliedGoal
     /\ ~SuppliedPose
     /\ \/ PartialPair
        \/ ~SuppliedPosition /\ ~SuppliedOrientation /\ ~(SuppliedX /\ SuppliedY /\ SuppliedYaw))
    => Rejected

\* A lone position by keyword together with x, y and yaw, the server being
\* reachable: rejected.
C3_Witness ==
    /\ call.op = "move"
    /\ call.conn
    /\ call.args = <<>>
    /\ DOMAIN call.kwargs = {"position", "x", "y", "yaw"}
    /\ Rejected

\* The Pose the caller's pose argument stands for.
NativeOf(o) == IF o.t = "Pose" THEN o ELSE ToPose(o)

SixDispatched ==
    LET p == sent[1].goal.v.pose.v.position
        q == sent[1].goal.v.pose.v.orientation
    IN <<p.x, p.y, p.z, q.x, q.y, q.z>>

\* C9: when Base.move is called with numbers alone, three or more of them,
\* each number is used for exactly one of x, y, z, roll, pitch, yaw: three
\* numbers are x, y and yaw with z, roll and pitch 0, six numbers are the six
\* coordinates in their order, and with no count of numbers does one number
\* serve two coordinates.
C9_EachNumberOnce ==
    (/\ call.op = "move"
     /\ call.conn
     /\ call.kwargs = <<>>
     /\ Len(call.args) >= 3
     /\ \A i \in DOMAIN call.args : call.args[i].t = "float")
    => /\ Len(sent) = 1
       /\ \A i \in DOMAIN call.args :
              Cardinality({j \in DOMAIN SixDispatched : SixDispatched[j] = call.args[i]}) = 1
       /\ Len(call.args) = 3 =>
              SixDispatched = <<call.args[1], call.args[2], F(0), F(0), F(0), call.args[3]>>
       /\ Len(call.args) = 6 => SixDispatched = call.args

-----------------------------------------------------------------------------
(* Properties of Base.get_pose (SpecPose). *)

Elapsed == clock - gp.time_start
Retries == Len(gp.attempts) - 1
AllFailed == \A i \in DOMAIN gp.attempts : gp.attempts[i] # "pose"

\* C5: with a timeout above 0, once the first lookup has failed, a failed
\* retry of either kind is absorbed: no exception leaves get_pose before the
\* elapsed time has reached the timeout, and a retry that succeeds is the
\* result at once.
C5_RetriesAbsorbed ==
    /\ (gp.pc = "raised" /\ gp.timeout > 0) => Elapsed >= gp.timeout
    /\ (gp.pc = "returned" /\ Retries > 0) =>
           /\ gp.attempts[Len(gp.attempts)] = "pose"
           /\ \A i \in 1..Retries : gp.attempts[i] # "pose"
           /\ Elapsed = Retries * SleepTicks

\* C6: when every lookup fails, get_pose ends by raising the expected
\* exception of the first lookup: with timeout 0 after that one lookup and no
\* sleep, with a timeout above 0 after one retry per second, as soon as the
\* elapsed time is no longer below the timeout and so less than one sleep
\* beyond it.
C6_AlwaysFailingService ==
    (gp.pc = "raised" /\ AllFailed) =>
        /\ gp.raised = Expected(gp.attempts[1], 1)
        /\ gp.timeout = 0 => Retries = 0 /\ clock = 0
        /\ gp.timeout > 0 =>
               /\ Elapsed = Retries * SleepTicks
               /\ Elapsed >= gp.timeout
               /\ Elapsed < gp.timeout + SleepTicks

-----------------------------------------------------------------------------
(* Properties of interleaved calls of move_to_goal (SpecConc). *)

\* C7: the check of line 97 and the registration of lines 101-102 act as one
\* step with respect to the other thread: a thread about to register a pose
\* it found new still finds it new, and no pose is ever held by two entries
\* of the store.
C7_AtomicRegistration ==
    /\ \A i \in DOMAIN thr :
           (thr[i].pc = "l101" /\ thr[i].is_new_goal) => IsNewGoal(thr[i].pose, waypoints)
    /\ \A j, k \in DOMAIN waypoints : j # k => waypoints[j] # waypoints[k]

=============================================================================
